---- MODULE Spec2Model ----
(***************************************************************************)
(* PowerShuffler1: the master MCU (decoder state machine and charge        *)
(* controller) and the client MCU (telemetry encoder), coupled by the one  *)
(* data line PB2 and by the client power switch PB3.                       *)
(*                                                                         *)
(* Time is abstracted: the two nodes, the timer and the line noise         *)
(* interleave freely, except that a pending interrupt of the master is     *)
(* served before anything else happens (interrupt latency is a few CPU     *)
(* cycles, every other event lasts at least a busy-wait loop).             *)
(***************************************************************************)
EXTENDS Integers, Sequences, FiniteSets, TLC

\* ---- program constants: master MCU ----
VERIFYTRIGGERTIMEOUT == 4
READINGTIMEOUT == 15625
MAXTIMEOUT == 65535
MAXTIMEOUTCOUNT == 5
SLEEPDELAYCOUNT == 30
MASTER_ADCITERATIONS == 4
ADCTHRESHOLDHI == 7
ADCTHRESHOLDLOW == 4
MAXVOLTAGEADCVALUE == 232
MINVOLTAGEADCVALUE == 163

\* ---- program constants: client MCU ----
CLIENT_ADCITERATIONS == 3
CLIENT_MAXVOLTAGEADCVALUE == 237

\* unsigned int / unsigned short of avr-gcc are 16 bits wide
UINT_MOD == 65536

\* ---- bounds of the model ----
\* low pulses the noise source may inject per listening cycle
MaxGlitches == 1
\* the largest sample value whose frame is explored under free timing
MaxSample == 7

\* raw 8-bit ADC conversions the master may read (ADCL) under free timing
MasterAdcValues == {0, 163, 164}

\* enum ReadDataState
Read_Idle == "Read_Idle"
Read_VerifyTrigger == "Read_VerifyTrigger"
Read_Reading == "Read_Reading"
Read_Timeout == "Read_Timeout"
Read_Error == "Read_Error"
ReadDataState == {Read_Idle, Read_VerifyTrigger, Read_Reading, Read_Timeout, Read_Error}

VARIABLES
    \* master MCU: position of main() and the counter of its sleep loop
    pc, sleepI,
    \* master MCU: globals
    g_readDataState, g_incomingCount, g_idleTimeoutCount, g_adcThreshold,
    \* master MCU: registers (OCR0A, EICRA, EIMSK, the INTF0 flag, the clock
    \* select of TCCR0B, TCNT0 relative to OCR0A, PRR, DDRB bit 3, PUEB bit 3, PB1)
    OCR0A, EICRA, EIMSK, INTF0, timerOn, tcnt, PRR, DDRB3, PUEB3, masterLed,
    \* master MCU: the conversion result main() tested last: the single read
    \* of the input gate, or the averaged reference of a charge decision
    adcRef,
    \* history: the latest charge decision, if any, stopped charging
    stopped,
    \* client MCU: position of main(), adcvalue, loop counter i, PORTB bit 2, PB1
    cpc, adcvalue, txI, clientLine, clientLed,
    \* history: the ADC conversions behind adcvalue
    reads,
    \* history: falling and rising edges the client drove after the preamble
    falls, rises,
    \* the line noise: a low pulse is being injected; pulses injected this cycle
    noise, glitches,
    \* history: progress of a nominal frame through the decoder
    nominal,
    \* history: the interrupt handler that ran last, where handlers are applied
    \* to every decoder state (SpecHandlers); "none" elsewhere
    served

mainVars == <<pc, sleepI, g_adcThreshold, PRR, DDRB3, PUEB3, masterLed, adcRef, stopped>>
decoderVars == <<g_readDataState, g_incomingCount, g_idleTimeoutCount,
                 OCR0A, EICRA, EIMSK, INTF0, timerOn, tcnt>>
clientVars == <<cpc, reads, adcvalue, txI, clientLine, clientLed, falls, rises>>
noiseVars == <<noise, glitches>>
vars == <<mainVars, decoderVars, clientVars, noiseVars, nominal, served>>

\* level of the data line as the master reads it on PB2 (TRUE = high)
LineLevel(cl, n) == cl /\ ~n
readPinB2 == LineLevel(clientLine, noise)

\* INT0 is requested: low level (EICRA = 0) or latched falling edge (EICRA = 2)
Int0Pending ==
    /\ EIMSK = 1
    /\ \/ EICRA = 0 /\ ~readPinB2
       \/ EICRA = 2 /\ INTF0

\* the reading window may take one more falling edge (bound of the model)
EdgeRoom ==
    ~(g_readDataState = Read_Reading /\ g_incomingCount >= MaxSample + MaxGlitches)

\* INTF0 after the line changes to (cl, n): a falling edge latches the flag
\* when INT0 senses edges; in level mode the flag is always clear
EdgeFlag(cl, n) ==
    IF EICRA = 2 /\ readPinB2 /\ ~LineLevel(cl, n) THEN TRUE ELSE INTF0

Init ==
    /\ pc = "init" /\ sleepI = 0
    /\ g_readDataState = Read_Idle /\ g_incomingCount = 0
    /\ g_idleTimeoutCount = 0 /\ g_adcThreshold = 0
    /\ OCR0A = 0 /\ EICRA = 0 /\ EIMSK = 0 /\ INTF0 = FALSE
    /\ timerOn = FALSE /\ tcnt = "below" /\ PRR = 0
    /\ DDRB3 = FALSE /\ PUEB3 = FALSE /\ masterLed = "off" /\ adcRef = 0
    /\ stopped = FALSE
    /\ cpc = "off" /\ adcvalue = 0 /\ txI = 0 /\ clientLine = TRUE /\ clientLed = "off"
    /\ falls = 0 /\ rises = 0 /\ reads = <<0, 0, 0>>
    /\ noise = FALSE /\ glitches = 0
    /\ nominal = "none" /\ served = "none"

\* ------------------------------------------------------------------------
\* master MCU: main()
\* ------------------------------------------------------------------------

\* the integer-truncated average of the master's ADCITERATIONS reads
MasterAverage(a, b, c, d) == ((a + b + c + d) % UINT_MOD) \div MASTER_ADCITERATIONS

\* mutant: the absolute maximum is not checked
ChargeConditionNoMax(count, ref, thr) == count < (ref + thr) % UINT_MOD

\* the condition of the charge decision, in 16-bit unsigned arithmetic
ChargeCondition(count, ref, thr) ==
    /\ count < (ref + thr) % UINT_MOD
    /\ count < MAXVOLTAGEADCVALUE

\* mutant: a keep-charging decision selects the low threshold
BoostedThresholdLow == ADCTHRESHOLDLOW

\* the threshold after a keep-charging decision
BoostedThreshold == ADCTHRESHOLDHI

\* mutant: a stop decision leaves the high threshold selected
HysteresisThresholdHigh == ADCTHRESHOLDHI

\* the threshold after a stop decision
HysteresisThreshold == ADCTHRESHOLDLOW

\* mutant: the gate also passes a read equal to the minimum
InputAtLeastMinimum(v) == v >= MINVOLTAGEADCVALUE

\* the input gate at the top of the main loop
InputAboveMinimum(v) == v > MINVOLTAGEADCVALUE

\* turnOnClient(): PB3 becomes an output driving low
turnOnClient ==
    /\ PUEB3' = FALSE /\ DDRB3' = TRUE
    /\ masterLed' = "blink"
    /\ cpc' = IF cpc = "off" THEN "boot" ELSE cpc
    /\ UNCHANGED <<reads, adcvalue, txI, clientLine, clientLed, falls, rises, nominal>>

\* mutant: the pull-up is enabled but PB3 stays an output driving low
turnOffClientKeepsDriving ==
    /\ PUEB3' = TRUE /\ DDRB3' = DDRB3
    /\ UNCHANGED <<clientVars, nominal>>

\* turnOffClient(): PB3 floats high; the client MCU loses its supply, restarts
\* from reset when powered again, and no longer pulls the line low
turnOffClient ==
    /\ PUEB3' = TRUE /\ DDRB3' = FALSE
    /\ cpc' = "off" /\ adcvalue' = 0 /\ txI' = 0
    /\ clientLine' = TRUE /\ clientLed' = "off"
    /\ falls' = 0 /\ rises' = 0 /\ reads' = <<0, 0, 0>>
    /\ nominal' = "none"

\* mutant: the idle counter is not cleared
resetReadStateToIdleKeepsCount ==
    /\ g_idleTimeoutCount' = g_idleTimeoutCount
    /\ g_readDataState' = Read_Idle
    /\ OCR0A' = MAXTIMEOUT
    /\ EICRA' = 0 /\ INTF0' = FALSE
    /\ EIMSK' = 1

\* resetReadStateToIdle()
resetReadStateToIdle ==
    /\ g_idleTimeoutCount' = 0
    /\ g_readDataState' = Read_Idle
    /\ OCR0A' = MAXTIMEOUT
    /\ EICRA' = 0 /\ INTF0' = FALSE
    /\ EIMSK' = 1

\* resetAndStartTimer()
resetAndStartTimer == tcnt' = "below" /\ timerOn' = TRUE

\* initializeRegisters()
MainInitializeRegisters ==
    /\ pc = "init"
    /\ g_adcThreshold' = ADCTHRESHOLDHI
    /\ PUEB3' = TRUE
    /\ OCR0A' = MAXTIMEOUT
    /\ EIMSK' = 1
    /\ pc' = "loop"
    /\ UNCHANGED <<sleepI, PRR, DDRB3, masterLed, adcRef>>
    /\ UNCHANGED <<g_readDataState, g_incomingCount, g_idleTimeoutCount, EICRA,
                   INTF0, timerOn, tcnt>>
    /\ UNCHANGED <<clientVars, noiseVars, nominal>>
    /\ UNCHANGED served
    /\ UNCHANGED stopped

\* main(): the gate reads above the minimum, turnOnClient()
MainTurnOnClientFrom(adcs) ==
    /\ pc = "loop" /\ ~Int0Pending
    /\ \E v \in adcs : InputAboveMinimum(v) /\ adcRef' = v
    /\ turnOnClient
    /\ pc' = "listen"
    /\ UNCHANGED <<sleepI, g_adcThreshold, PRR, decoderVars, noiseVars>>
    /\ UNCHANGED served
    /\ UNCHANGED stopped

\* mutant: a low input leaves the client switch as it is
MainLowInputKeepsClientFrom(adcs) ==
    /\ pc = "loop" /\ ~Int0Pending
    /\ \E v \in adcs : ~InputAboveMinimum(v) /\ adcRef' = v
    /\ masterLed' = "off"
    /\ turnOffClientKeepsDriving
    /\ PRR' = 3
    /\ sleepI' = 0
    /\ pc' = "sleep"
    /\ UNCHANGED <<g_adcThreshold, decoderVars, noiseVars>>
    /\ UNCHANGED served
    /\ UNCHANGED stopped

\* main(): the gate reads at or below the minimum: double blink, turnOffClient(),
\* power reduction
MainLowInputFrom(adcs) ==
    /\ pc = "loop" /\ ~Int0Pending
    /\ \E v \in adcs : ~InputAboveMinimum(v) /\ adcRef' = v
    /\ masterLed' = "off"
    /\ turnOffClient
    /\ PRR' = 3
    /\ sleepI' = 0
    /\ pc' = "sleep"
    /\ UNCHANGED <<g_adcThreshold, decoderVars, noiseVars>>
    /\ UNCHANGED served
    /\ UNCHANGED stopped

\* main(): resetReadStateToIdle(); resetAndStartTimer()
MainStartListening ==
    /\ pc = "listen" /\ ~Int0Pending
    /\ resetReadStateToIdle
    /\ resetAndStartTimer
    /\ pc' = "wait"
    /\ glitches' = IF noise THEN 1 ELSE 0
    /\ nominal' = "none"
    /\ UNCHANGED <<sleepI, g_adcThreshold, PRR, DDRB3, PUEB3, masterLed, adcRef>>
    /\ UNCHANGED <<g_incomingCount, clientVars, noise>>
    /\ UNCHANGED served
    /\ UNCHANGED stopped

\* main(): the busy-wait ends, g_readDataState is Read_Timeout or Read_Error.
\* g_readDataState is not volatile and the ISRs write it: a build may keep the
\* first value it read and never leave the loop. Spec has no fairness, so the
\* behaviours that stay at "wait" for ever are behaviours of the model too.
MainBusyWaitExit ==
    /\ pc = "wait" /\ ~Int0Pending
    /\ g_readDataState \in {Read_Timeout, Read_Error}
    /\ masterLed' = "blink"
    /\ pc' = "decide"
    /\ UNCHANGED <<sleepI, g_adcThreshold, PRR, DDRB3, PUEB3, adcRef>>
    /\ UNCHANGED <<decoderVars, clientVars, noiseVars, nominal>>
    /\ UNCHANGED served
    /\ UNCHANGED stopped

\* main(): Read_Timeout and the condition holds: boost the threshold, continue
MainKeepChargingFrom(adcs) ==
    /\ pc = "decide" /\ ~Int0Pending
    /\ g_readDataState = Read_Timeout
    /\ \E a, b, c, d \in adcs :
         /\ adcRef' = MasterAverage(a, b, c, d)
         /\ ChargeCondition(g_incomingCount, adcRef', g_adcThreshold)
    /\ g_adcThreshold' = BoostedThreshold
    /\ masterLed' = "blink"
    /\ pc' = "loop"
    /\ UNCHANGED <<sleepI, PRR, DDRB3, PUEB3>>
    /\ UNCHANGED <<decoderVars, clientVars, noiseVars, nominal>>
    /\ UNCHANGED served
    /\ stopped' = FALSE

\* main(): Read_Timeout and the condition fails: low threshold, LED off,
\* turnOffClient(), power reduction
MainStopChargingFrom(adcs) ==
    /\ pc = "decide" /\ ~Int0Pending
    /\ g_readDataState = Read_Timeout
    /\ \E a, b, c, d \in adcs :
         /\ adcRef' = MasterAverage(a, b, c, d)
         /\ ~ChargeCondition(g_incomingCount, adcRef', g_adcThreshold)
    /\ g_adcThreshold' = HysteresisThreshold
    /\ masterLed' = "off"
    /\ turnOffClient
    /\ PRR' = 3
    /\ sleepI' = 0
    /\ pc' = "sleep"
    /\ UNCHANGED <<decoderVars, noiseVars>>
    /\ UNCHANGED served
    /\ stopped' = TRUE

\* mutant: the error branch also resets the hysteresis threshold
MainErrorLowersThreshold ==
    /\ pc = "decide" /\ ~Int0Pending
    /\ g_readDataState # Read_Timeout
    /\ masterLed' = "on"
    /\ turnOffClient
    /\ PRR' = 3
    /\ sleepI' = 0
    /\ pc' = "sleep"
    /\ g_adcThreshold' = ADCTHRESHOLDLOW
    /\ UNCHANGED <<adcRef, decoderVars, noiseVars>>
    /\ UNCHANGED served
    /\ UNCHANGED stopped

\* mutant: the error branch starts the loop over as a keep decision does
MainErrorRetries ==
    /\ pc = "decide" /\ ~Int0Pending
    /\ g_readDataState # Read_Timeout
    /\ masterLed' = "on"
    /\ pc' = "loop"
    /\ UNCHANGED <<sleepI, PRR, DDRB3, PUEB3, g_adcThreshold, adcRef>>
    /\ UNCHANGED <<decoderVars, clientVars, noiseVars, nominal, served>>
    /\ UNCHANGED stopped

\* main(): Read_Error: LED solid on, turnOffClient(), power reduction
MainError ==
    /\ pc = "decide" /\ ~Int0Pending
    /\ g_readDataState # Read_Timeout
    /\ masterLed' = "on"
    /\ turnOffClient
    /\ PRR' = 3
    /\ sleepI' = 0
    /\ pc' = "sleep"
    /\ UNCHANGED <<g_adcThreshold, adcRef, decoderVars, noiseVars>>
    /\ UNCHANGED served
    /\ UNCHANGED stopped

\* main(): one iteration of the sleep loop: sleep_mode(), two LED toggles
MainSleepStep ==
    /\ pc = "sleep" /\ ~Int0Pending
    /\ sleepI < SLEEPDELAYCOUNT
    /\ sleepI' = sleepI + 1
    /\ UNCHANGED <<pc, g_adcThreshold, PRR, DDRB3, PUEB3, masterLed, adcRef>>
    /\ UNCHANGED <<decoderVars, clientVars, noiseVars, nominal>>
    /\ UNCHANGED served
    /\ UNCHANGED stopped

\* main(): the sleep loop is over: restore power, back to the top of the loop
MainWake ==
    /\ pc = "sleep" /\ ~Int0Pending
    /\ sleepI >= SLEEPDELAYCOUNT
    /\ PRR' = 0
    /\ pc' = "loop"
    /\ UNCHANGED <<sleepI, g_adcThreshold, DDRB3, PUEB3, masterLed, adcRef>>
    /\ UNCHANGED <<decoderVars, clientVars, noiseVars, nominal>>
    /\ UNCHANGED served
    /\ UNCHANGED stopped

MainTurnOnClient == MainTurnOnClientFrom(MasterAdcValues)
MainLowInput == MainLowInputFrom(MasterAdcValues)
MainKeepCharging == MainKeepChargingFrom(MasterAdcValues)
MainStopCharging == MainStopChargingFrom(MasterAdcValues)

\* ------------------------------------------------------------------------
\* master MCU: interrupt handlers
\* ------------------------------------------------------------------------

\* mutant: the level of PB2 is not looked at, every pulse counts as a trigger
GlitchNever(pinHigh) == FALSE

\* ISR(TIM0_COMPA_vect), Read_VerifyTrigger: PB2 has floated high, a glitch
GlitchDetected(pinHigh) == pinHigh

\* mutant: the two outcomes are swapped
ReadingOutcomeSwapped(pinHigh) == IF pinHigh THEN Read_Error ELSE Read_Timeout

\* ISR(TIM0_COMPA_vect), Read_Reading: the outcome given the level of PB2
ReadingOutcome(pinHigh) == IF pinHigh THEN Read_Timeout ELSE Read_Error

\* mutant: the idle timeout comes one overflow early
IdleTimedOutEarly(n) == n >= MAXTIMEOUTCOUNT

\* ISR(TIM0_OVF_vect): the incremented idle counter exceeds its maximum
IdleTimedOut(n) == n > MAXTIMEOUTCOUNT

\* mutant: an edge is counted twice
CountEdgeTwice(n) == (n + 2) % UINT_MOD

\* ISR(INT0_vect), Read_Reading: the edge counter after one more edge
CountEdge(n) == (n + 1) % UINT_MOD

\* the body of ISR(INT0_vect)
INT0_handler ==
    \/ /\ g_readDataState = Read_Idle
       /\ EIMSK' = 0
       /\ g_readDataState' = Read_VerifyTrigger
       /\ OCR0A' = VERIFYTRIGGERTIMEOUT
       /\ resetAndStartTimer
       /\ INTF0' = FALSE
       /\ UNCHANGED <<g_incomingCount, g_idleTimeoutCount, EICRA>>
    \/ /\ g_readDataState = Read_Reading
       /\ g_incomingCount' = CountEdge(g_incomingCount)
       /\ INTF0' = FALSE
       /\ UNCHANGED <<g_readDataState, g_idleTimeoutCount, OCR0A, EICRA, EIMSK,
                      timerOn, tcnt>>
    \/ /\ g_readDataState \notin {Read_Idle, Read_Reading}
       /\ INTF0' = FALSE
       /\ UNCHANGED <<g_readDataState, g_incomingCount, g_idleTimeoutCount, OCR0A,
                      EICRA, EIMSK, timerOn, tcnt>>

\* ISR(INT0_vect), served when INT0 is requested
INT0_vect ==
    /\ Int0Pending
    /\ INT0_handler
    /\ UNCHANGED <<mainVars, clientVars, noiseVars, nominal, served>>

\* the timer counts: it is clocked and not held by power reduction
TimerRunning == timerOn /\ PRR = 0

\* the frame is over: the client has driven its last rising edge
FrameOver == cpc \in {"sleep", "start"} \/ (cpc = "data" /\ txI >= adcvalue)

\* mutant: the edge counter is not cleared when a reading starts
StartCountKept(n) == n

\* ISR(TIM0_COMPA_vect), Read_VerifyTrigger: the edge counter as a reading starts
StartCount(n) == 0

\* the body of ISR(TIM0_COMPA_vect)
TIM0_COMPA_handler ==
    \/ /\ g_readDataState = Read_VerifyTrigger
       /\ GlitchDetected(readPinB2)
       /\ resetReadStateToIdle
       /\ resetAndStartTimer
       /\ UNCHANGED g_incomingCount
    \/ /\ g_readDataState = Read_VerifyTrigger
       /\ ~GlitchDetected(readPinB2)
       /\ g_incomingCount' = StartCount(g_incomingCount)
       /\ g_readDataState' = Read_Reading
       /\ OCR0A' = READINGTIMEOUT
       /\ EICRA' = 2 /\ INTF0' = FALSE
       /\ EIMSK' = 1
       /\ resetAndStartTimer
       /\ UNCHANGED g_idleTimeoutCount
    \/ /\ g_readDataState = Read_Reading
       /\ timerOn' = FALSE
       /\ g_readDataState' = ReadingOutcome(readPinB2)
       /\ EIMSK' = 0
       /\ tcnt' = "above"
       /\ UNCHANGED <<g_incomingCount, g_idleTimeoutCount, OCR0A, EICRA, INTF0>>
    \/ /\ g_readDataState \notin {Read_VerifyTrigger, Read_Reading}
       /\ tcnt' = "above"
       /\ UNCHANGED <<g_readDataState, g_incomingCount, g_idleTimeoutCount, OCR0A,
                      EICRA, EIMSK, INTF0, timerOn>>

\* history: what the compare interrupt means for a nominal frame
NominalAfterCompare ==
    CASE g_readDataState = Read_VerifyTrigger /\ GlitchDetected(readPinB2) ->
             IF nominal = "armed" THEN "bad" ELSE nominal
      [] g_readDataState = Read_VerifyTrigger /\ ~GlitchDetected(readPinB2) ->
             IF nominal = "armed"
             THEN (IF cpc = "trigLow" THEN "verified" ELSE "bad")
             ELSE nominal
      [] g_readDataState = Read_Reading ->
             IF nominal = "verified"
             THEN (IF FrameOver THEN "ok" ELSE "bad")
             ELSE nominal
      [] OTHER -> nominal

\* ISR(TIM0_COMPA_vect): TCNT0 reaches OCR0A
TIM0_COMPA_vect ==
    /\ TimerRunning /\ tcnt = "below" /\ ~Int0Pending
    /\ TIM0_COMPA_handler
    /\ nominal' = NominalAfterCompare
    /\ UNCHANGED <<mainVars, clientVars, noiseVars, served>>

\* mutant: the idle counter is incremented before the state is looked at
OverflowCountsAlways(state) == TRUE

\* ISR(TIM0_OVF_vect): the left operand of &&, which guards the increment
OverflowCounts(state) == state = Read_Idle

\* mutant: the idle timeout leaves INT0 enabled
TIM0_OVF_handlerKeepsInt0 ==
    /\ tcnt' = "below"
    /\ IF OverflowCounts(g_readDataState)
       THEN LET n == (g_idleTimeoutCount + 1) % UINT_MOD IN
            IF IdleTimedOut(n)
            THEN /\ timerOn' = FALSE
                 /\ g_readDataState' = Read_Error
                 /\ g_idleTimeoutCount' = 0
                 /\ EIMSK' = EIMSK
            ELSE /\ g_idleTimeoutCount' = n
                 /\ UNCHANGED <<timerOn, g_readDataState, EIMSK>>
       ELSE UNCHANGED <<timerOn, g_readDataState, g_idleTimeoutCount, EIMSK>>
    /\ UNCHANGED <<g_incomingCount, OCR0A, EICRA, INTF0>>

\* the body of ISR(TIM0_OVF_vect)
TIM0_OVF_handler ==
    /\ tcnt' = "below"
    /\ IF OverflowCounts(g_readDataState)
       THEN LET n == (g_idleTimeoutCount + 1) % UINT_MOD IN
            IF IdleTimedOut(n)
            THEN /\ timerOn' = FALSE
                 /\ g_readDataState' = Read_Error
                 /\ g_idleTimeoutCount' = 0
                 /\ EIMSK' = 0
            ELSE /\ g_idleTimeoutCount' = n
                 /\ UNCHANGED <<timerOn, g_readDataState, EIMSK>>
       ELSE UNCHANGED <<timerOn, g_readDataState, g_idleTimeoutCount, EIMSK>>
    /\ UNCHANGED <<g_incomingCount, OCR0A, EICRA, INTF0>>

\* ISR(TIM0_OVF_vect): TCNT0 wraps around
TIM0_OVF_vect ==
    /\ TimerRunning /\ tcnt = "above" /\ ~Int0Pending
    /\ TIM0_OVF_handler
    /\ UNCHANGED <<mainVars, clientVars, noiseVars, nominal, served>>

\* ------------------------------------------------------------------------
\* client MCU: main()
\* ------------------------------------------------------------------------

\* the integer-truncated average of the client's ADCITERATIONS reads
ClientAverage(a, b, c) == ((a + b + c) % UINT_MOD) \div CLIENT_ADCITERATIONS

\* mutant: a grounded ADC input is not caught
SampleInvalidNoZero(v) == v > CLIENT_MAXVOLTAGEADCVALUE

\* over-voltage or grounded ADC input
SampleInvalid(v) == v > CLIENT_MAXVOLTAGEADCVALUE \/ v = 0

\* mutant: the loop runs once more
MoreTicksInclusive(i, v) == i <= v

\* the loop of main() that calls transmitOneTick() goes on
MoreTicks(i, v) == i < v

\* the client writes PORTB bit 2; the master's INT0 edge detector sees the line
DriveLine(level) ==
    /\ clientLine' = level
    /\ INTF0' = EdgeFlag(level, noise)

\* history of the data phase: the edges the client drives after the preamble
CountEdges(level) ==
    /\ falls' = IF clientLine /\ ~level THEN falls + 1 ELSE falls
    /\ rises' = IF ~clientLine /\ level THEN rises + 1 ELSE rises

masterUntouched ==
    UNCHANGED <<mainVars, g_readDataState, g_incomingCount, g_idleTimeoutCount,
                OCR0A, EICRA, EIMSK, timerOn, tcnt, served>>

\* initializeRegisters() of the client, after power-on
ClientInitializeRegisters ==
    /\ cpc = "boot" /\ ~Int0Pending
    /\ DriveLine(TRUE)
    /\ cpc' = "start"
    /\ masterUntouched
    /\ UNCHANGED <<reads, adcvalue, txI, clientLed, falls, rises, noiseVars, nominal>>

\* resetAndStart() and the averaging loop, the conversions drawn from triples
ClientSampleFrom(triples) ==
    /\ cpc = "start" /\ ~Int0Pending
    /\ \E t \in triples :
         /\ reads' = t
         /\ adcvalue' = ClientAverage(t[1], t[2], t[3])
    /\ clientLed' = "blink"
    /\ falls' = 0 /\ rises' = 0
    /\ txI' = 0
    /\ cpc' = "sampled"
    /\ nominal' = IF nominal = "none" THEN "none" ELSE "bad"
    /\ masterUntouched
    /\ UNCHANGED <<clientLine, INTF0, noiseVars>>

\* outputDataError(): PB2 low, the LED off for BRIEFBLINKDELAYMS and then on
ClientOutputDataError ==
    /\ cpc = "sampled" /\ ~Int0Pending
    /\ SampleInvalid(adcvalue)
    /\ DriveLine(FALSE)
    /\ clientLed' = "on"
    /\ cpc' = "errorHold"
    /\ masterUntouched
    /\ UNCHANGED <<reads, adcvalue, txI, falls, rises, noiseVars, nominal>>

\* after outputDataError(): sleep_mode(), PORTB as it was left
ClientErrorSleep ==
    /\ cpc = "errorHold" /\ ~Int0Pending
    /\ cpc' = "sleep"
    /\ masterUntouched
    /\ UNCHANGED <<reads, adcvalue, txI, clientLine, clientLed, INTF0, falls, rises,
                   noiseVars, nominal>>

\* triggerRead(): PB2 low, held for TRIGGERTIMEOUTCOUNT iterations
ClientTriggerLow ==
    /\ cpc = "sampled" /\ ~Int0Pending
    /\ ~SampleInvalid(adcvalue)
    /\ DriveLine(FALSE)
    /\ clientLed' = "blink"
    /\ cpc' = "trigLow"
    /\ LET arm == /\ pc = "wait" /\ g_readDataState = Read_Idle /\ EIMSK = 1
                  /\ clientLine /\ nominal = "none" /\ glitches = 0 /\ ~noise
       IN nominal' = IF arm THEN "armed" ELSE "bad"
    /\ masterUntouched
    /\ UNCHANGED <<reads, adcvalue, txI, falls, rises, noiseVars>>

\* triggerRead(): PB2 high again, held for TRANSMITDELAYCOUNT iterations
ClientTriggerHigh ==
    /\ cpc = "trigLow" /\ ~Int0Pending
    /\ DriveLine(TRUE)
    /\ txI' = 0
    /\ cpc' = "data"
    /\ masterUntouched
    /\ UNCHANGED <<reads, adcvalue, clientLed, falls, rises, noiseVars, nominal>>

\* transmitOneTick(): PB2 low
ClientTickLow ==
    /\ cpc = "data" /\ ~Int0Pending
    /\ MoreTicks(txI, adcvalue)
    /\ DriveLine(FALSE) /\ CountEdges(FALSE)
    /\ cpc' = "tickLow"
    /\ masterUntouched
    /\ UNCHANGED <<reads, adcvalue, txI, clientLed, noiseVars, nominal>>

\* transmitOneTick(): PB2 high, next iteration
ClientTickHigh ==
    /\ cpc = "tickLow" /\ ~Int0Pending
    /\ DriveLine(TRUE) /\ CountEdges(TRUE)
    /\ txI' = txI + 1
    /\ cpc' = "data"
    /\ masterUntouched
    /\ UNCHANGED <<reads, adcvalue, clientLed, noiseVars, nominal>>

\* the frame is complete: LED blip, then sleep_mode()
ClientFrameDone ==
    /\ cpc = "data" /\ ~Int0Pending
    /\ ~MoreTicks(txI, adcvalue)
    /\ clientLed' = "off"
    /\ cpc' = "sleep"
    /\ masterUntouched
    /\ UNCHANGED <<reads, adcvalue, txI, clientLine, INTF0, falls, rises, noiseVars, nominal>>

\* the watchdog wakes the client: next iteration of its main loop
ClientWake ==
    /\ cpc = "sleep" /\ ~Int0Pending
    /\ cpc' = "start"
    /\ masterUntouched
    /\ UNCHANGED <<reads, adcvalue, txI, clientLine, clientLed, INTF0, falls, rises,
                   noiseVars, nominal>>

\* conversions of the client explored under free timing: averages 0, 1,
\* MaxSample and 238
ClientReads ==
    {<<0, 1, 1>>, <<1, 1, 2>>, <<MaxSample, MaxSample, MaxSample + 1>>,
     <<238, 238, 238>>}

ClientSample == ClientSampleFrom(ClientReads)

\* ------------------------------------------------------------------------
\* the data line: electrical noise
\* ------------------------------------------------------------------------

\* a low pulse begins on the line
NoiseLow ==
    /\ ~noise /\ glitches < MaxGlitches /\ ~Int0Pending
    /\ noise' = TRUE
    /\ glitches' = glitches + 1
    /\ INTF0' = EdgeFlag(clientLine, TRUE)
    /\ nominal' = IF nominal \in {"armed", "verified"} THEN "bad" ELSE nominal
    /\ masterUntouched
    /\ UNCHANGED clientVars

\* the low pulse ends
NoiseHigh ==
    /\ noise /\ ~Int0Pending
    /\ noise' = FALSE
    /\ masterUntouched
    /\ UNCHANGED <<INTF0, glitches, clientVars, nominal>>

\* free timing: falling edges are explored while the reading window has room
BoundedOutputDataError == EdgeRoom /\ ClientOutputDataError
BoundedTriggerLow == EdgeRoom /\ ClientTriggerLow
BoundedTickLow == EdgeRoom /\ ClientTickLow
BoundedNoiseLow == EdgeRoom /\ NoiseLow

Next ==
    \/ MainInitializeRegisters
    \/ MainTurnOnClient
    \/ MainLowInput
    \/ MainStartListening
    \/ MainBusyWaitExit
    \/ MainKeepCharging
    \/ MainStopCharging
    \/ MainError
    \/ MainSleepStep
    \/ MainWake
    \/ INT0_vect
    \/ TIM0_COMPA_vect
    \/ TIM0_OVF_vect
    \/ ClientInitializeRegisters
    \/ ClientSample
    \/ BoundedOutputDataError
    \/ ClientErrorSleep
    \/ BoundedTriggerLow
    \/ ClientTriggerHigh
    \/ BoundedTickLow
    \/ ClientTickHigh
    \/ ClientFrameDone
    \/ ClientWake
    \/ BoundedNoiseLow
    \/ NoiseHigh

Spec == Init /\ [][Next]_vars

\* ------------------------------------------------------------------------
\* nominal timing: no noise, and the durations the constants of the two
\* programs set (verification window 4 timer ticks < trigger hold of 256 loop
\* iterations; longest frame < reading timeout of about 0.5 s < client sleep of
\* about 4 s; client power-on debounce 1 s > the master's client debounce loop;
\* idle timeout of 6 timer overflows > client sleep)
\* ------------------------------------------------------------------------

\* conversions of the client under nominal timing: averages 0, 100, 120, 231,
\* 232, 237 (truncated from 237 2/3) and 238
NominalClientReads ==
    {<<0, 1, 1>>, <<99, 100, 101>>, <<120, 120, 120>>, <<231, 231, 232>>,
     <<232, 232, 232>>, <<237, 238, 238>>, <<238, 238, 238>>}

\* conversions of the master under nominal timing
NominalMasterAdcValues == {104, 163, 164, 255}

\* the verification window ends while the client still holds the trigger low
TriggerOutlastsVerify == g_readDataState # Read_VerifyTrigger

\* the reading timeout expires after the frame, before the client wakes again
ReadingOutlastsFrame == g_readDataState = Read_Reading => cpc = "sleep"

\* the client leaves power-on debounce or sleep while the master listens in idle
ClientSlowerThanMaster == pc = "wait" /\ g_readDataState = Read_Idle

\* a live client transmits before the idle timeout
ClientBeatsIdleTimeout == g_idleTimeoutCount < MAXTIMEOUTCOUNT

NominalCompare == ReadingOutlastsFrame /\ TIM0_COMPA_vect
NominalOverflow == ClientBeatsIdleTimeout /\ TIM0_OVF_vect
NominalClientInitializeRegisters == ClientSlowerThanMaster /\ ClientInitializeRegisters
NominalClientWake == ClientSlowerThanMaster /\ ClientWake
NominalClientTriggerHigh == TriggerOutlastsVerify /\ ClientTriggerHigh
NominalClientSample == ClientSampleFrom(NominalClientReads)
NominalTurnOnClient == MainTurnOnClientFrom(NominalMasterAdcValues)
NominalLowInput == MainLowInputFrom(NominalMasterAdcValues)
NominalKeepCharging == MainKeepChargingFrom(NominalMasterAdcValues)
NominalStopCharging == MainStopChargingFrom(NominalMasterAdcValues)

NextNominal ==
    \/ MainInitializeRegisters
    \/ NominalTurnOnClient
    \/ NominalLowInput
    \/ MainStartListening
    \/ MainBusyWaitExit
    \/ NominalKeepCharging
    \/ NominalStopCharging
    \/ MainError
    \/ MainSleepStep
    \/ MainWake
    \/ INT0_vect
    \/ NominalCompare
    \/ NominalOverflow
    \/ NominalClientInitializeRegisters
    \/ NominalClientSample
    \/ ClientOutputDataError
    \/ ClientErrorSleep
    \/ ClientTriggerLow
    \/ NominalClientTriggerHigh
    \/ ClientTickLow
    \/ ClientTickHigh
    \/ ClientFrameDone
    \/ NominalClientWake

SpecNominal == Init /\ [][NextNominal]_vars

\* ------------------------------------------------------------------------
\* nominal durations, but no order between the two programs: the client
\* leaves its power-on debounce or its sleep at any point of the master's
\* cycle, so main() may start listening anywhere in a frame
\* ------------------------------------------------------------------------

\* a low phase of a tick (TRANSMITDELAYCOUNT loop iterations) that the decoder
\* began to verify outlasts the verification window, as the trigger hold does
TickOutlastsVerify == g_readDataState # Read_VerifyTrigger

AnyStartClientTickHigh == TickOutlastsVerify /\ ClientTickHigh

\* the reading timeout (about 0.5 s) expires before the client's sleep (about
\* 4 s) ends
SleepOutlastsReading == g_readDataState # Read_Reading

AnyStartClientWake == SleepOutlastsReading /\ ClientWake

NextAnyStart ==
    \/ MainInitializeRegisters
    \/ MainTurnOnClient
    \/ MainLowInput
    \/ MainStartListening
    \/ MainBusyWaitExit
    \/ MainKeepCharging
    \/ MainStopCharging
    \/ MainError
    \/ MainSleepStep
    \/ MainWake
    \/ INT0_vect
    \/ NominalCompare
    \/ NominalOverflow
    \/ ClientInitializeRegisters
    \/ ClientSample
    \/ ClientOutputDataError
    \/ ClientErrorSleep
    \/ ClientTriggerLow
    \/ NominalClientTriggerHigh
    \/ ClientTickLow
    \/ AnyStartClientTickHigh
    \/ ClientFrameDone
    \/ AnyStartClientWake

SpecAnyStart == Init /\ [][NextAnyStart]_vars

\* ------------------------------------------------------------------------
\* a line whose noise never ends, and the progress the hardware guarantees
\* ------------------------------------------------------------------------

\* one more low pulse begins on the line, after the MaxGlitches counted ones
NoiseRepeats ==
    /\ ~noise /\ glitches = MaxGlitches /\ ~Int0Pending
    /\ EdgeRoom
    /\ noise' = TRUE
    /\ INTF0' = EdgeFlag(clientLine, TRUE)
    /\ nominal' = IF nominal \in {"armed", "verified"} THEN "bad" ELSE nominal
    /\ masterUntouched
    /\ UNCHANGED <<glitches, clientVars>>

NextLive ==
    \/ Next
    \/ NoiseRepeats

\* main() runs on, a requested interrupt is served, a running timer counts on
MasterFairness ==
    /\ WF_vars(MainInitializeRegisters)
    /\ WF_vars(MainTurnOnClient)
    /\ WF_vars(MainLowInput)
    /\ WF_vars(MainStartListening)
    /\ WF_vars(MainBusyWaitExit)
    /\ WF_vars(MainKeepCharging)
    /\ WF_vars(MainStopCharging)
    /\ WF_vars(MainError)
    /\ WF_vars(MainSleepStep)
    /\ WF_vars(MainWake)
    /\ WF_vars(INT0_vect)
    /\ WF_vars(TIM0_COMPA_vect)
    /\ WF_vars(TIM0_OVF_vect)

SpecLive == Init /\ [][NextLive]_vars /\ MasterFairness

\* ------------------------------------------------------------------------
\* the handlers applied to every decoder state: an interrupt may arrive in
\* any state of the decoder and with any setting of its registers, whatever
\* main() and the line did before
\* ------------------------------------------------------------------------

HandlersInit ==
    /\ pc = "wait" /\ sleepI = 0
    /\ g_readDataState \in ReadDataState
    /\ g_incomingCount \in 0..MaxSample
    /\ g_idleTimeoutCount \in 0..MAXTIMEOUTCOUNT
    /\ g_adcThreshold = ADCTHRESHOLDHI
    /\ OCR0A \in {VERIFYTRIGGERTIMEOUT, READINGTIMEOUT, MAXTIMEOUT}
    /\ EICRA \in {0, 2} /\ EIMSK \in {0, 1} /\ INTF0 = FALSE
    /\ timerOn \in BOOLEAN /\ tcnt \in {"below", "above"} /\ PRR = 0
    /\ DDRB3 = TRUE /\ PUEB3 = FALSE /\ masterLed = "blink" /\ adcRef = 0
    /\ stopped = FALSE
    /\ cpc = "boot" /\ adcvalue = 0 /\ txI = 0 /\ clientLine = TRUE /\ clientLed = "off"
    /\ falls = 0 /\ rises = 0 /\ reads = <<0, 0, 0>>
    /\ noise \in BOOLEAN /\ glitches = 0
    /\ nominal = "none" /\ served = "none"

\* the three handlers, and resetReadStateToIdle() + resetAndStartTimer() of main()
ServeINT0 ==
    /\ EdgeRoom
    /\ INT0_handler
    /\ served' = "INT0"
    /\ UNCHANGED <<mainVars, clientVars, noiseVars, nominal>>

ServeCOMPA ==
    /\ TIM0_COMPA_handler
    /\ served' = "COMPA"
    /\ UNCHANGED <<mainVars, clientVars, noiseVars, nominal>>

ServeOVF ==
    /\ TIM0_OVF_handler
    /\ served' = "OVF"
    /\ UNCHANGED <<mainVars, clientVars, noiseVars, nominal>>

ServeReset ==
    /\ resetReadStateToIdle
    /\ resetAndStartTimer
    /\ served' = "main"
    /\ UNCHANGED <<g_incomingCount, mainVars, clientVars, noiseVars, nominal>>

\* the level of PB2 changes
LineChanges ==
    /\ noise' = ~noise
    /\ served' = "none"
    /\ UNCHANGED <<mainVars, decoderVars, clientVars, glitches, nominal>>

NextHandlers ==
    \/ ServeINT0
    \/ ServeCOMPA
    \/ ServeOVF
    \/ ServeReset
    \/ LineChanges

SpecHandlers == HandlersInit /\ [][NextHandlers]_vars

\* ------------------------------------------------------------------------
\* properties
\* ------------------------------------------------------------------------

\* a step of main() that takes the charge decision on a Read_Timeout outcome
TimeoutDecisionStep == pc = "decide" /\ g_readDataState = Read_Timeout /\ pc' # pc
\* the keep-charging decision and the stop decision
KeepStep == TimeoutDecisionStep /\ pc' = "loop"
StopStep == TimeoutDecisionStep /\ pc' = "sleep"
\* a step of main() that handles a Read_Error outcome
ErrorStep == pc = "decide" /\ g_readDataState = Read_Error /\ pc' # pc

\* C1: round trip. When the decoder was idle and listening before the client
\* started triggerRead(), the trigger hold outlasted the verification window,
\* no noise was injected and the frame ended before the reading timeout
\* expired (nominal = "ok"), the decoder is in Read_Timeout and
\* g_incomingCount is exactly the sample value, which is in 1..237.
C1_RoundTrip ==
    nominal = "ok" =>
        /\ g_readDataState = Read_Timeout
        /\ g_incomingCount = adcvalue
        /\ adcvalue \in 1..237

C1_Witness ==
    /\ nominal = "ok" /\ pc = "decide"
    /\ g_readDataState = Read_Timeout
    /\ adcvalue = MaxSample /\ g_incomingCount = MaxSample

\* C2: charge decision. On a Read_Timeout outcome with decoded value V, fresh
\* averaged reference R and active threshold T, the client switch stays
\* enabled exactly if V < R + T and V < 232, and is disabled otherwise; V=100,
\* R=104, T=7 keeps charging and V=120, R=104, T=7 stops charging.
C2_ChargeDecision ==
    [][TimeoutDecisionStep =>
         /\ DDRB3
         /\ DDRB3' <=> (g_incomingCount < adcRef' + g_adcThreshold /\ g_incomingCount < 232)
         /\ (g_incomingCount = 100 /\ adcRef' = 104 /\ g_adcThreshold = 7) => DDRB3'
         /\ (g_incomingCount = 120 /\ adcRef' = 104 /\ g_adcThreshold = 7) => ~DDRB3'
      ]_vars

C2_Witness ==
    /\ pc = "loop" /\ DDRB3
    /\ g_readDataState = Read_Timeout
    /\ g_incomingCount = 100 /\ adcRef = 104 /\ g_adcThreshold = 7

\* C3: hysteresis. Once the control cycles run, g_adcThreshold is 7 or 4; every
\* keep-charging decision leaves it at 7; it goes from 7 to 4 only in a step
\* that takes the stop decision on a Read_Timeout outcome.
C3_Hysteresis ==
    /\ [](pc # "init" => g_adcThreshold \in {7, 4})
    /\ [][/\ KeepStep => g_adcThreshold' = 7
          /\ (g_adcThreshold = 7 /\ g_adcThreshold' = 4) => (StopStep /\ ~DDRB3')
      ]_vars

C3_Witness ==
    /\ pc = "sleep" /\ g_readDataState = Read_Timeout
    /\ g_adcThreshold = 4 /\ ~DDRB3 /\ masterLed = "off"

\* C4: an error leaves the hysteresis state alone. g_adcThreshold changes only
\* in initializeRegisters() and in the decision on a Read_Timeout outcome, so a
\* cycle that ends in Read_Error keeps the value it started with.
C4_ErrorKeepsThreshold ==
    [][/\ g_adcThreshold' # g_adcThreshold => (pc = "init" \/ TimeoutDecisionStep)
       /\ ErrorStep => g_adcThreshold' = g_adcThreshold
      ]_vars

C4_Witness ==
    /\ pc = "sleep" /\ g_readDataState = Read_Error /\ masterLed = "on"
    /\ g_adcThreshold = 4

\* C5: the charging path defaults to disabled. The client switch is off at
\* power-up, only turnOnClient() at the top of the main loop enables it, and
\* the step that handles a Read_Error outcome disables it and goes to sleep.
C5_ClientOffByDefault ==
    /\ [](pc = "init" => ~DDRB3)
    /\ [][/\ (~DDRB3 /\ DDRB3') => (pc = "loop" /\ pc' = "listen")
          /\ ErrorStep => (~DDRB3' /\ pc' = "sleep")
      ]_vars

C5_Witness ==
    /\ pc = "loop" /\ g_readDataState = Read_Error /\ masterLed = "on"
    /\ ~DDRB3 /\ sleepI = SLEEPDELAYCOUNT

\* the verification timer expires; the reading timer expires
VerifyExpiryStep ==
    g_readDataState = Read_VerifyTrigger /\ g_readDataState' # Read_VerifyTrigger /\ pc' = pc
ReadingExpiryStep ==
    g_readDataState = Read_Reading /\ g_readDataState' # Read_Reading /\ pc' = pc

\* C6: glitch rejection. The low level that is seen in Read_Idle moves the
\* decoder to Read_VerifyTrigger without touching g_incomingCount; if the line
\* is high again when the verification timer expires, the decoder is back in
\* Read_Idle with INT0 enabled on low level, not in Read_Reading, and
\* g_incomingCount is unchanged.
C6_GlitchRejection ==
    [][/\ (g_readDataState = Read_Idle /\ g_readDataState' = Read_VerifyTrigger) =>
              (g_incomingCount' = g_incomingCount /\ EIMSK' = 0)
       /\ (VerifyExpiryStep /\ readPinB2) =>
              /\ g_readDataState' = Read_Idle
              /\ EIMSK' = 1 /\ EICRA' = 0
              /\ g_incomingCount' = g_incomingCount
      ]_vars

C6_Witness ==
    /\ pc = "wait" /\ g_readDataState = Read_Idle /\ EIMSK = 1
    /\ glitches = 1 /\ ~noise /\ cpc = "boot"

\* C7: decoder error classification. When the reading timer expires in
\* Read_Reading the decoder moves to Read_Error if the line is low and to
\* Read_Timeout if it is high, whatever g_incomingCount holds, and it enters
\* Read_Timeout in no other way.
C7_ErrorClassification ==
    [][/\ ReadingExpiryStep =>
              /\ g_readDataState' = (IF readPinB2 THEN Read_Timeout ELSE Read_Error)
              /\ g_incomingCount' = g_incomingCount
       /\ (g_readDataState # Read_Timeout /\ g_readDataState' = Read_Timeout) =>
              (ReadingExpiryStep /\ readPinB2)
      ]_vars

C7_Witness ==
    /\ pc = "wait" /\ g_readDataState = Read_Error /\ OCR0A = READINGTIMEOUT
    /\ g_incomingCount > 0 /\ ~readPinB2

\* the integer-truncated average of the conversions the client has read
TruncatedAverage == (reads[1] + reads[2] + reads[3]) \div 3

C9_FrameShape ==
    /\ cpc = "trigLow" => (~clientLine /\ falls = 0 /\ rises = 0)
    /\ cpc = "data" => (clientLine /\ falls = txI /\ rises = txI /\ txI <= adcvalue)
    /\ cpc = "tickLow" => (~clientLine /\ falls = txI + 1 /\ rises = txI /\ txI < adcvalue)
    /\ (cpc = "sleep" /\ adcvalue \in 1..237) =>
           (clientLine /\ falls = adcvalue /\ rises = adcvalue)

C9_Witness ==
    /\ cpc = "sleep" /\ adcvalue = 237
    /\ clientLine /\ falls = 237 /\ rises = 237

\* the timer overflows while the decoder is in Read_Idle
OverflowInIdle ==
    /\ g_readDataState = Read_Idle /\ g_readDataState' # Read_VerifyTrigger
    /\ tcnt = "above" /\ tcnt' = "below" /\ pc' = pc

\* C10: silence error. While the decoder stays in Read_Idle the idle counter
\* moves only by one per timer overflow; the first 5 overflows leave the
\* decoder in Read_Idle, the next one moves it to Read_Error with the timer
\* stopped, INT0 disabled and the idle counter 0; Read_Error is left only by
\* resetReadStateToIdle() in main().
C10_SilenceError ==
    /\ [](g_readDataState = Read_Idle => g_idleTimeoutCount <= 5)
    /\ [](g_readDataState = Read_Error => (~timerOn /\ EIMSK = 0))
    /\ [][/\ (OverflowInIdle /\ g_idleTimeoutCount < 5) =>
                 (g_readDataState' = Read_Idle /\ g_idleTimeoutCount' = g_idleTimeoutCount + 1)
          /\ (OverflowInIdle /\ g_idleTimeoutCount >= 5) =>
                 /\ g_readDataState' = Read_Error
                 /\ g_idleTimeoutCount' = 0 /\ ~timerOn' /\ EIMSK' = 0
          /\ (g_readDataState = Read_Idle /\ g_readDataState' = Read_Idle /\ pc' = pc
                /\ g_idleTimeoutCount' # g_idleTimeoutCount) => OverflowInIdle
          /\ (g_readDataState = Read_Error /\ g_readDataState' # Read_Error) =>
                 (pc = "listen" /\ pc' = "wait" /\ g_readDataState' = Read_Idle)
         ]_vars

C10_Witness ==
    /\ pc = "wait" /\ g_readDataState = Read_Error /\ OCR0A = MAXTIMEOUT
    /\ g_idleTimeoutCount = 0 /\ ~timerOn /\ EIMSK = 0
    /\ glitches = 0 /\ cpc = "boot"

\* C11: the decoder cannot hang. Whenever main() has started listening and
\* busy-waits, whatever the data line does, the decoder eventually is in
\* Read_Timeout or Read_Error.
C11_NoHang ==
    (pc = "wait") ~> (g_readDataState \in {Read_Timeout, Read_Error})

\* the three globals of the decoder keep their values
DecoderUnchanged ==
    UNCHANGED <<g_readDataState, g_incomingCount, g_idleTimeoutCount>>

\* C12: out-of-state events are no-ops. ISR(INT0_vect) run in
\* Read_VerifyTrigger, Read_Timeout or Read_Error, ISR(TIM0_COMPA_vect) run in
\* Read_Idle, Read_Timeout or Read_Error, and ISR(TIM0_OVF_vect) run in any
\* state but Read_Idle leave g_readDataState, g_incomingCount and
\* g_idleTimeoutCount unchanged.
C12_OutOfStateNoOps ==
    [][/\ (served' = "INT0"
             /\ g_readDataState \in {Read_VerifyTrigger, Read_Timeout, Read_Error})
          => DecoderUnchanged
       /\ (served' = "COMPA"
             /\ g_readDataState \in {Read_Idle, Read_Timeout, Read_Error})
          => DecoderUnchanged
       /\ (served' = "OVF" /\ g_readDataState # Read_Idle)
          => DecoderUnchanged
      ]_vars

C12_Witness ==
    /\ served = "OVF" /\ g_readDataState = Read_Reading
    /\ g_idleTimeoutCount = MAXTIMEOUTCOUNT /\ g_incomingCount = MaxSample

\* the changes of g_readDataState the handlers may make
HandlerTransitions ==
    {<<Read_Idle, Read_VerifyTrigger>>, <<Read_Idle, Read_Error>>,
     <<Read_VerifyTrigger, Read_Idle>>, <<Read_VerifyTrigger, Read_Reading>>,
     <<Read_Reading, Read_Timeout>>, <<Read_Reading, Read_Error>>}

\* C13: decoder transition relation. g_readDataState is always one of the
\* five states. A handler changes it only Idle -> VerifyTrigger (INT0),
\* Idle -> Error (overflow), VerifyTrigger -> Idle (compare, line high),
\* VerifyTrigger -> Reading (compare, line low, g_incomingCount becomes 0),
\* Reading -> Timeout or Error (compare); every other change is the reset to
\* Read_Idle by main(); no handler leaves Read_Timeout or Read_Error.
C13_TransitionRelation ==
    /\ [](g_readDataState \in ReadDataState)
    /\ [][/\ (g_readDataState' # g_readDataState /\ served' # "main") =>
                 /\ <<g_readDataState, g_readDataState'>> \in HandlerTransitions
                 /\ g_readDataState' = Read_VerifyTrigger => served' = "INT0"
                 /\ g_readDataState = Read_Idle /\ g_readDataState' = Read_Error
                        => served' = "OVF"
                 /\ g_readDataState \in {Read_VerifyTrigger, Read_Reading}
                        => served' = "COMPA"
                 /\ g_readDataState' = Read_Idle => readPinB2
                 /\ g_readDataState' = Read_Reading => (~readPinB2 /\ g_incomingCount' = 0)
          /\ (g_readDataState' # g_readDataState /\ served' = "main") =>
                 g_readDataState' = Read_Idle
          /\ (g_readDataState \in {Read_Timeout, Read_Error}
                /\ served' \in {"INT0", "COMPA", "OVF"}) =>
                 g_readDataState' = g_readDataState
         ]_vars

C13_Witness ==
    /\ served = "COMPA" /\ g_readDataState = Read_Timeout
    /\ OCR0A = READINGTIMEOUT /\ ~timerOn /\ EIMSK = 0
    /\ g_incomingCount = MaxSample + MaxGlitches

\* C14: errors are not retried within the cycle. A Read_Error outcome takes
\* main() to the start of the sleep loop; the sleep loop is left only after
\* SLEEPDELAYCOUNT iterations, for the top of the main loop; the top of the
\* main loop is reached only from initializeRegisters(), from the end of the
\* sleep loop, or by the keep-charging decision on a Read_Timeout outcome; and
\* listening starts only from the top of the main loop.
C14_ErrorsNotRetried ==
    [][/\ ErrorStep => (pc' = "sleep" /\ sleepI' = 0)
       /\ (pc = "sleep" /\ pc' # "sleep") => (sleepI = SLEEPDELAYCOUNT /\ pc' = "loop")
       /\ (pc = "sleep" /\ pc' = "sleep") => sleepI' \in {sleepI, sleepI + 1}
       /\ (pc # "loop" /\ pc' = "loop") => (pc = "init" \/ pc = "sleep" \/ KeepStep)
       /\ (pc # "listen" /\ pc' = "listen") => pc = "loop"
       /\ (pc # "sleep" /\ pc' = "sleep") => sleepI' = 0
      ]_vars

C14_Witness ==
    /\ pc = "listen" /\ g_readDataState = Read_Error
    /\ sleepI = SLEEPDELAYCOUNT /\ masterLed = "blink" /\ DDRB3

\* the control cycle that follows a cycle with a Read_Error outcome: main() is
\* at the top of its loop, the LED still solid on, the decoder still in
\* Read_Error, and main() moves on
AfterErrorCycleStep ==
    /\ pc = "loop" /\ masterLed = "on" /\ g_readDataState = Read_Error
    /\ pc' # "loop"

\* the decoder as resetReadStateToIdle() leaves it
DecoderResetNext ==
    /\ g_readDataState' = Read_Idle /\ g_idleTimeoutCount' = 0
    /\ OCR0A' = MAXTIMEOUT /\ EICRA' = 0 /\ EIMSK' = 1

\* C15 as stated: the control cycle after a cycle with a Read_Error outcome
\* goes on to listen, and resets the decoder to Read_Idle (idle counter 0,
\* compare value MAXTIMEOUT, INT0 enabled on low level).
C15_ErrorBackToIdle ==
    [][/\ AfterErrorCycleStep => pc' = "listen"
       /\ (pc = "listen" /\ pc' # "listen") => DecoderResetNext
      ]_vars

\* C15 amended: the control cycle after a cycle with a Read_Error outcome
\* either goes on to listen (input read above MINVOLTAGEADCVALUE) or goes back
\* to sleep with the decoder still in Read_Error (input read at or below it);
\* every cycle that listens first resets the decoder to Read_Idle (idle
\* counter 0, compare value MAXTIMEOUT, INT0 enabled on low level), and
\* Read_Error is left in no other way.
C15_ErrorBackToIdleWhenListening ==
    [][/\ AfterErrorCycleStep =>
              \/ pc' = "listen"
              \/ pc' = "sleep" /\ g_readDataState' = Read_Error /\ ~DDRB3'
       /\ (pc = "listen" /\ pc' # "listen") => (pc' = "wait" /\ DecoderResetNext)
       /\ (pc # "wait" /\ pc' = "wait") => pc = "listen"
       /\ (g_readDataState = Read_Error /\ g_readDataState' # Read_Error) =>
              (pc = "listen" /\ pc' = "wait")
      ]_vars

C15_Witness ==
    /\ pc = "sleep" /\ sleepI = 0 /\ masterLed = "off" /\ PRR = 3
    /\ g_readDataState = Read_Error /\ g_adcThreshold = ADCTHRESHOLDLOW
    /\ g_idleTimeoutCount = 0 /\ OCR0A = MAXTIMEOUT /\ ~DDRB3

\* main() turns the client on while the charging path is disabled, in a
\* control cycle that follows a sleep
ActivationStep ==
    /\ pc = "loop" /\ ~DDRB3 /\ sleepI = SLEEPDELAYCOUNT
    /\ pc' = "listen"

\* C16 as stated: whenever the previous control cycle ended with the charging
\* path disabled, the threshold the next charge decision uses is the low one.
C16_DeadBand ==
    [][ActivationStep => g_adcThreshold = ADCTHRESHOLDLOW]_vars

\* C16 amended: after power-up the threshold is low exactly if the latest
\* charge decision was a stop decision; an activation changes nothing of it,
\* and the charge decision keeps the path enabled exactly if the decoded value
\* is below the reference plus that threshold and below 232. So charging is
\* re-activated under the low threshold after a stop decision, and under the
\* high one after power-up and after a keep decision whose charging an error
\* or a low input ended.
C16_DeadBandAfterStop ==
    /\ [](pc # "init" =>
            g_adcThreshold = (IF stopped THEN ADCTHRESHOLDLOW ELSE ADCTHRESHOLDHI))
    /\ [][/\ ActivationStep => UNCHANGED <<g_adcThreshold, stopped>>
          /\ TimeoutDecisionStep =>
                (DDRB3' <=> /\ g_incomingCount < adcRef' + g_adcThreshold
                            /\ g_incomingCount < 232)
         ]_vars

C16_Witness ==
    /\ pc = "decide" /\ g_readDataState = Read_Timeout /\ DDRB3
    /\ stopped /\ g_adcThreshold = ADCTHRESHOLDLOW /\ sleepI = SLEEPDELAYCOUNT


\* C17: a decoded count of 0 is never taken as a reading. Whatever the line
\* does, main() takes no keep-charging decision on a Read_Timeout outcome
\* whose g_incomingCount is 0.
C17_ZeroNeverAReading ==
    [][KeepStep => g_incomingCount # 0]_vars


\* C18: cross-node agreement when main() may start listening anywhere in a
\* frame. Whenever the decoder reaches Read_Timeout, g_incomingCount is the
\* number of edge pairs of the frame the client sent, which is its averaged
\* sample; a frame observed in part is not reported as a smaller value.
C18_AgreementAnyStart ==
    [][(g_readDataState # Read_Timeout /\ g_readDataState' = Read_Timeout)
          => g_incomingCount' = adcvalue]_vars


\* C19: the master never sleeps with the charging path enabled. Whenever
\* main() is in its sleep phase the client switch is disabled; the switch is
\* enabled only while main() listens, busy-waits or decides, or is back at the
\* top of the loop, which it reaches with the switch enabled only by a
\* keep-charging decision.
C19_NeverSleepsEnabled ==
    /\ [](pc = "sleep" => ~DDRB3)
    /\ [](DDRB3 => pc \in {"listen", "wait", "decide", "loop"})
    /\ [][(pc # "loop" /\ pc' = "loop" /\ DDRB3') => KeepStep]_vars
    /\ [][(pc # "sleep" /\ pc' = "sleep") => ~DDRB3']_vars

C19_Witness ==
    /\ pc = "sleep" /\ sleepI = SLEEPDELAYCOUNT /\ ~DDRB3 /\ PUEB3
    /\ g_readDataState = Read_Timeout /\ ~stopped
    /\ g_adcThreshold = ADCTHRESHOLDHI

\* a step of main() through the input gate at the top of the loop
GateStep == pc = "loop" /\ pc' # "loop"

\* C20: the low-input gate. At the top of the loop main() turns the client on
\* and goes on to listen only if its single ADC read is above 163, and a
\* listening cycle starts in no other way; on a read of 163 or less it does
\* not listen, leaves g_adcThreshold and the decoder as they are, disables the
\* client switch, also when a keep-charging decision had left it enabled, and
\* goes to sleep.
C20_LowInputGate ==
    [][/\ GateStep =>
            \/ /\ adcRef' > 163
               /\ pc' = "listen" /\ DDRB3' /\ ~PUEB3'
            \/ /\ adcRef' <= 163
               /\ pc' = "sleep" /\ sleepI' = 0
               /\ ~DDRB3' /\ PUEB3' /\ cpc' = "off"
               /\ UNCHANGED <<g_adcThreshold, decoderVars>>
       /\ (pc # "listen" /\ pc' = "listen") => GateStep
      ]_vars

C20_Witness ==
    /\ pc = "sleep" /\ sleepI = 0 /\ adcRef = MINVOLTAGEADCVALUE
    /\ ~DDRB3 /\ PUEB3 /\ cpc = "off"
    /\ g_readDataState = Read_Timeout /\ ~stopped
    /\ g_adcThreshold = ADCTHRESHOLDHI


\* the decoder has reported an outcome that main() has not used yet
OutcomePending ==
    /\ pc \in {"wait", "decide"}
    /\ g_readDataState \in {Read_Timeout, Read_Error}

\* C21: interrupt discipline. Whenever the decoder is in Read_VerifyTrigger,
\* Read_Timeout or Read_Error, INT0 is disabled (EIMSK = 0), and every step
\* that enters one of these states disables it; whenever the decoder is in
\* Read_Timeout or Read_Error the timer is stopped; and from the moment the
\* outcome is there until main() has used it, no step changes g_readDataState
\* or g_incomingCount.
C21_InterruptDiscipline ==
    /\ [](g_readDataState \in {Read_VerifyTrigger, Read_Timeout, Read_Error}
            => EIMSK = 0)
    /\ [](g_readDataState \in {Read_Timeout, Read_Error} => ~timerOn)
    /\ [][/\ (/\ g_readDataState' # g_readDataState
              /\ g_readDataState' \in {Read_VerifyTrigger, Read_Timeout, Read_Error})
                => EIMSK' = 0
          /\ OutcomePending => UNCHANGED <<g_readDataState, g_incomingCount>>
         ]_vars

C21_Witness ==
    /\ pc = "decide" /\ g_readDataState = Read_Timeout
    /\ EIMSK = 0 /\ ~timerOn
    /\ cpc = "trigLow" /\ ~readPinB2
    /\ g_incomingCount = MaxSample

====
